---- MODULE Spec2Model ----
(***************************************************************************)
(* A model of squashfs-tools/unsquash-3.c: the decoder of the metadata of  *)
(* squashfs 1/2/3 images (scratch index allocator, superblock decoder,     *)
(* filesystem table orchestrator, fragment/export table readers, inode     *)
(* decoder and directory stream decoder).                                  *)
(*                                                                         *)
(* Each component has its own specification over the module's variables:   *)
(*   SpecAlloc   sequences of salloc_index_table calls                     *)
(*   SpecSuper   read_super_3 on one superblock record                     *)
(*   SpecTables  read_filesystem_tables on one image                       *)
(*   SpecFrag    read_fragment_table for every fragment count              *)
(*   SpecInode   sequences of read_inode calls                             *)
(*   SpecDir     squashfs_opendir on one directory                         *)
(***************************************************************************)
EXTENDS Integers, Sequences, FiniteSets, TLC

VARIABLES
    \* ---- salloc_index_table's statics and its caller's view
    salloc,        \* [alloc_table, alloc_size]: the function's two statics
    salloc_ret,    \* the pointer the last call returned
    salloc_hist,   \* the indexes arguments of the calls made so far
    salloc_did,    \* whether the last call went through realloc
    salloc_pc,     \* "run" | "aborted" (MEM_ERROR ends the process)
    \* ---- the globals read_super_3 writes, and its caller's view
    sBlk,          \* the version-agnostic superblock (sBlk.s.* and sBlk.*)
    swap,          \* the endian-swap mode
    comp,          \* the selected compressor
    super_raw,     \* the superblock record as it lies in the image
    super_s,       \* the caller's squashfs_super_block_3 buffer (*s)
    super_ops,     \* the caller's *s_ops
    super_ret,     \* read_super_3's return value
    super_read,    \* whether read_fs_bytes succeeded
    super_pc,      \* "start" | "done"
    \* ---- read_filesystem_tables: the tables it loads and its position
    uid_table, guid_table,   \* the id tables (index -> id)
    fragment_table,          \* the block malloc'ed for the fragment entries
    alloc,         \* alloc_index_table's statics, as salloc
    table_start,   \* the orchestrator's upper-bound cursor
    tab_cursors,   \* the steps passed so far, each with the cursor it left
    tab_from,      \* the step the call returned or aborted from
    tab_reads,     \* the table readers called so far with their results
    block_reqs,    \* the read_block calls of read_fragment_table
    tab_ret,       \* the return value
    tab_pc,        \* "guids" | "uids" | "exports" | "fragments" | "dirs" |
                   \* "done" | "aborted"; "frag" in SpecFrag
    \* ---- read_inode: its static record and its callers' view
    inode_mem,     \* the inode records in memory, by address
    inode_held,    \* the pointers returned so far, each with what it showed
    inode_ids,     \* the id table accesses of the last call
    inode_reads,   \* the reads the last call issued after the base header's
    inode_changed, \* the fields of the record the last call gave a new value
    inode_hdr,     \* the header the last call decoded (<<>>: none was read)
    inode_calls,   \* the calls made so far
    inode_exit,    \* "none", or the EXIT_UNSQUASH / MEM_ERROR that ended it
    inode_pc,      \* "idle" | "run" | "exit"
    \* ---- squashfs_opendir: its locals, its result and its position
    dir,           \* the struct dir being built (NoDir before and after)
    dir_i,         \* *i: the pointer to the owning inode handed back
    dir_bytes,     \* bytes
    dir_size,      \* size
    dir_count,     \* dir_count: the entries left under the current header
    dir_dirh,      \* dirh, the header last read
    dir_last,      \* the entry last read, with what became of it
    dir_reads,     \* the read_directory_data calls so far
    dir_built,     \* the entries appended so far
    dir_checks,    \* the check_directory calls so far, each with bytes, size
                   \* and the reads made before it
    dir_freed,     \* the entries squashfs_closedir released
    dir_ret,       \* "none" | "dir" | "NULL"
    dir_pc         \* "idle" | "open" | "loop" | "entries" | "done" | "exit"

allocVars == <<salloc, salloc_ret, salloc_hist, salloc_did, salloc_pc>>
superVars == <<comp, super_raw, super_s, super_ops, super_ret,
               super_read, super_pc>>
tablesVars == <<uid_table, guid_table, fragment_table, alloc, table_start,
                tab_cursors, tab_from, tab_reads, block_reqs, tab_ret, tab_pc>>

inodeVars == <<inode_mem, inode_held, inode_ids, inode_reads, inode_changed,
               inode_hdr, inode_calls, inode_exit, inode_pc>>
dirVars == <<dir, dir_i, dir_bytes, dir_size, dir_count, dir_dirh, dir_last,
             dir_reads, dir_built, dir_checks, dir_freed, dir_ret, dir_pc>>

vars == <<allocVars, sBlk, swap, superVars, tablesVars, inodeVars, dirVars>>

\* what each component leaves alone
notAlloc == <<sBlk, swap, superVars, tablesVars, inodeVars, dirVars>>
notSuper == <<allocVars, tablesVars, inodeVars, dirVars>>
notTables == <<salloc_ret, salloc_hist, salloc_did, salloc_pc, superVars,
               inodeVars, dirVars>>
notInode == <<sBlk, swap, allocVars, superVars, tablesVars, dirVars>>
notDir == <<sBlk, swap, allocVars, superVars, tablesVars>>

----------------------------------------------------------------------------
(* Bounds of the model *)

\* largest indexes argument handed to salloc_index_table
MaxIndexes == 3
\* longest sequence of salloc_index_table calls
MaxAllocCalls == 4
\* largest minor version and inode count of the superblock records
MaxMinor == 2
MaxSuperInodes == 2
\* the region starts of SpecTables are 0, 8, ..., 8 * MaxOff
MaxOff == 3
\* largest fragment count of SpecFrag
MaxFragments == 1100
\* the inode count of SpecTables' superblocks (fragment counts go one above)
TabInodes == 1
\* SpecInode: the largest uid and gid index and count, the largest inode
\* number (one above the inode count), the largest file size, block_log and
\* in-block offset, and the longest sequence of read_inode calls
MaxId == 2
MaxInodeNumber == 3
MaxFileSize == 9
MaxBlockLog == 2
MaxInodeOffset == 1
MaxInodeCalls == 2
\* SpecDir: the largest declared directory size and the largest number of
\* entries under one header
MaxDirData == 12
MaxDirCount == 2

----------------------------------------------------------------------------
(* Scratch index allocator: salloc_index_table *)

SizeofLongLong == 8

NullPtr == [null |-> TRUE, cap |-> 0]
Block(n) == [null |-> FALSE, cap |-> n]

\* what realloc(ptr, length) can return: a block of length bytes or NULL.
\* For length 0 the block is released and NULL or a block of no bytes is
\* returned; a table of no indexes is never dereferenced, nothing in this unit
\* tells the two apart, and the model has the one value NullPtr for both.
Realloc(length) == IF length = 0 THEN {NullPtr}
                   ELSE {NullPtr, Block(length)}

\* int length = indexes * sizeof(long long); the callers hand in at most 2^23
\* indexes (the note on overflow limits in read_fragment_table), so the
\* product fits the int
SallocLength(indexes) == indexes * SizeofLongLong

\* the mutant: reallocate whenever the size differs (shrinks eagerly)
SallocMustReallocEager(alloc_size, length) == alloc_size # length \/ length = 0

\* if(alloc_size < length || length == 0)
SallocMustRealloc(alloc_size, length) == alloc_size < length \/ length = 0

\* the statics after the call, given what realloc returned
SallocStatics(s, indexes, table) ==
    IF SallocMustRealloc(s.alloc_size, SallocLength(indexes))
    THEN [alloc_table |-> table, alloc_size |-> SallocLength(indexes)]
    ELSE s

\* if(table == NULL && length != 0) MEM_ERROR();
SallocAborts(s, indexes, table) ==
    /\ SallocMustRealloc(s.alloc_size, SallocLength(indexes))
    /\ table.null
    /\ SallocLength(indexes) # 0

SallocInit ==
    /\ salloc = [alloc_table |-> NullPtr, alloc_size |-> 0]
    /\ salloc_ret = NullPtr
    /\ salloc_hist = <<>>
    /\ salloc_did = FALSE
    /\ salloc_pc = "run"

\* one call salloc_index_table(indexes) that returns
SallocReturn(indexes) ==
    /\ salloc_pc = "run"
    /\ Len(salloc_hist) < MaxAllocCalls
    /\ \E table \in Realloc(SallocLength(indexes)) :
         /\ ~SallocAborts(salloc, indexes, table)
         /\ salloc' = SallocStatics(salloc, indexes, table)
         /\ salloc_ret' = salloc'.alloc_table
    /\ salloc_did' = SallocMustRealloc(salloc.alloc_size, SallocLength(indexes))
    /\ salloc_hist' = Append(salloc_hist, indexes)
    /\ UNCHANGED <<salloc_pc, notAlloc>>

\* one call salloc_index_table(indexes) that ends in MEM_ERROR()
SallocMemError(indexes) ==
    /\ salloc_pc = "run"
    /\ Len(salloc_hist) < MaxAllocCalls
    /\ \E table \in Realloc(SallocLength(indexes)) :
         SallocAborts(salloc, indexes, table)
    /\ salloc_did' = TRUE
    /\ salloc_hist' = Append(salloc_hist, indexes)
    /\ salloc_pc' = "aborted"
    /\ UNCHANGED <<salloc, salloc_ret, notAlloc>>

AllocReserve == \E indexes \in 0..MaxIndexes : SallocReturn(indexes)
AllocFail == \E indexes \in 0..MaxIndexes : SallocMemError(indexes)

----------------------------------------------------------------------------
(* Superblock decoder: read_super_3 *)

\* C's truth values, and read_super_3's "not a squashfs 3 superblock"
C_TRUE == 1
C_FALSE == 0
NotThisFormat == -1

\* The fields of squashfs_super_block_3 that read_super_3 reads or copies, with
\* their widths in bytes.  In SpecSuper a field's value is its byte string,
\* most significant byte first: the 64-bit fields do not fit the model's
\* integers, and the byte swap is then the reversal it is in memory.
SuperWidth ==
    [s_magic |-> 4, inodes |-> 4, mkfs_time |-> 4, block_size |-> 4,
     fragments |-> 4, block_log |-> 2, flags |-> 1, s_major |-> 2,
     s_minor |-> 2, root_inode |-> 8, bytes_used |-> 8,
     inode_table_start |-> 8, directory_table_start |-> 8,
     fragment_table_start |-> 8, lookup_table_start |-> 8, no_uids |-> 1,
     no_guids |-> 1, uid_start |-> 8, guid_start |-> 8]

SuperFields == DOMAIN SuperWidth

Reverse(t) == [k \in 1..Len(t) |-> t[Len(t) + 1 - k]]

RECURSIVE Num(_)
\* the unsigned number a byte string stands for
Num(t) == IF Len(t) = 0 THEN 0
          ELSE 256 * Num(SubSeq(t, 1, Len(t) - 1)) + t[Len(t)]

\* the n-byte string of a number 0 <= v < 2^16, and of all ones
Bytes(v, n) == [k \in 1..n |-> IF k = n THEN v % 256
                                ELSE IF k = n - 1 THEN v \div 256 ELSE 0]
AllOnes(n) == [k \in 1..n |-> 255]

\* SQUASHFS_MAGIC 0x73717368, SQUASHFS_MAGIC_SWAP 0x68737173
SQUASHFS_MAGIC == <<115, 113, 115, 104>>
SQUASHFS_MAGIC_SWAP == <<104, 115, 113, 115>>
\* SQUASHFS_INVALID_BLK ((long long) -1)
InvalidBlkBytes == AllOnes(8)

\* SQUASHFS_SWAP_SUPER_BLOCK_3: every field byte-reversed
SwapSuperBlock3(r) == [f \in SuperFields |-> Reverse(r[f])]

\* the mutant: the version test taken on the record as read, before the swap
SuperAfterSwapNone(r) == r

\* lines 713-720: the record the version test sees
SuperAfterSwap(r) ==
    IF r.s_magic = SQUASHFS_MAGIC_SWAP THEN SwapSuperBlock3(r) ELSE r

\* line 714: swap = 1 exactly for a foreign-endian magic
SuperSwapMode(r) == IF r.s_magic = SQUASHFS_MAGIC_SWAP THEN 1 ELSE 0

\* lines 722-723
SuperRejected(r) ==
    \/ r.s_magic # SQUASHFS_MAGIC
    \/ Num(r.s_major) # 3
    \/ Num(r.s_minor) > 1

\* lines 726-745: the fields copied, and the xattr table hard-coded absent
SuperCopy(r) ==
    [f \in SuperFields \cup {"xattr_id_table_start"} |->
        IF f = "xattr_id_table_start" THEN InvalidBlkBytes ELSE r[f]]

\* the globals before any superblock is read (zero-initialised statics)
ZeroSuper3 == [f \in SuperFields |-> Bytes(0, SuperWidth[f])]
ZeroSBlk == [f \in SuperFields \cup {"xattr_id_table_start"} |->
                IF f = "xattr_id_table_start" THEN Bytes(0, 8)
                ELSE Bytes(0, SuperWidth[f])]

\* A superblock as mksquashfs lays it out, host order, for the values the
\* model varies (the inode count and the version) and fixed others
LogicalSuper(magic, major, minor, inodes) ==
    [f \in SuperFields |->
        CASE f = "s_magic" -> magic
          [] f = "s_major" -> major
          [] f = "s_minor" -> minor
          [] f = "inodes" -> Bytes(inodes, 4)
          [] f = "block_size" -> Bytes(4096, 4)
          [] f = "block_log" -> Bytes(12, 2)
          [] f = "fragments" -> Bytes(1, 4)
          [] f = "no_uids" -> Bytes(1, 1)
          [] f = "no_guids" -> Bytes(0, 1)
          [] f = "mkfs_time" -> Bytes(77, 4)
          [] f = "flags" -> Bytes(192, 1)
          [] f = "root_inode" -> Bytes(32, 8)
          [] f = "bytes_used" -> Bytes(4096, 8)
          [] f = "inode_table_start" -> Bytes(119, 8)
          [] f = "directory_table_start" -> Bytes(300, 8)
          [] f = "fragment_table_start" -> Bytes(400, 8)
          [] f = "lookup_table_start" -> InvalidBlkBytes
          [] f = "uid_start" -> Bytes(500, 8)
          [] f = "guid_start" -> Bytes(0, 8)]

\* the magics, versions and inode counts the records are drawn from
SuperMagics == {SQUASHFS_MAGIC, SQUASHFS_MAGIC_SWAP, <<104, 115, 113, 115 + 1>>}
SuperMajors == {Bytes(v, 2) : v \in {2, 3, 4}} \cup {Reverse(Bytes(3, 2))}
SuperMinors == {Bytes(v, 2) : v \in 0..MaxMinor}
                  \cup {Reverse(Bytes(v, 2)) : v \in 0..MaxMinor}
SuperInodes == 1..MaxSuperInodes

\* a record in the image: the payload laid out in host or foreign order under
\* the given magic and version fields
SuperRecord(magic, major, minor, inodes, foreign) ==
    [f \in SuperFields |->
        IF foreign /\ f \notin {"s_magic", "s_major", "s_minor"}
        THEN Reverse(LogicalSuper(magic, major, minor, inodes)[f])
        ELSE LogicalSuper(magic, major, minor, inodes)[f]]

SuperIdle ==
    /\ comp = "none"
    /\ super_raw = <<>>
    /\ super_s = <<>>
    /\ super_ops = "none"
    /\ super_ret = C_FALSE
    /\ super_read = FALSE
    /\ super_pc = "idle"

SuperStart ==
    /\ sBlk = ZeroSBlk
    /\ swap = 0
    /\ comp = "none"
    /\ super_raw \in { SuperRecord(magic, major, minor, inodes, foreign) :
                         magic \in SuperMagics, major \in SuperMajors,
                         minor \in SuperMinors, inodes \in SuperInodes,
                         foreign \in BOOLEAN }
    /\ super_s = ZeroSuper3
    /\ super_ops = "none"
    /\ super_ret = C_FALSE
    /\ super_read = FALSE
    /\ super_pc = "start"

\* lines 706-709: read_fs_bytes fails and its result is returned
ReadSuper3ReadFails ==
    /\ super_pc = "start"
    /\ super_read' = FALSE
    /\ super_ret' = C_FALSE
    /\ super_pc' = "done"
    /\ UNCHANGED <<sBlk, swap, comp, super_raw, super_s, super_ops, notSuper>>

\* lines 713-724: the record is read (and swapped), and is not a 3.x superblock
ReadSuper3Rejects ==
    /\ super_pc = "start"
    /\ SuperRejected(SuperAfterSwap(super_raw))
    /\ super_read' = TRUE
    /\ super_s' = SuperAfterSwap(super_raw)
    /\ swap' = SuperSwapMode(super_raw)
    /\ super_ret' = NotThisFormat
    /\ super_pc' = "done"
    /\ UNCHANGED <<sBlk, comp, super_raw, super_ops, notSuper>>

\* lines 713-753: the record is accepted
ReadSuper3Accepts ==
    /\ super_pc = "start"
    /\ ~SuperRejected(SuperAfterSwap(super_raw))
    /\ super_read' = TRUE
    /\ super_s' = SuperAfterSwap(super_raw)
    /\ swap' = SuperSwapMode(super_raw)
    /\ sBlk' = SuperCopy(SuperAfterSwap(super_raw))
    /\ super_ops' = "ops"
    /\ comp' = "gzip"
    /\ super_ret' = C_TRUE
    /\ super_pc' = "done"
    /\ UNCHANGED <<super_raw, notSuper>>

----------------------------------------------------------------------------
(* Fragment table reader, export table reader, id table reader *)

\* In SpecTables and later the superblock fields are numbers.
\* SQUASHFS_INVALID_BLK ((long long) -1)
SQUASHFS_INVALID_BLK == -1
SQUASHFS_METADATA_SIZE == 8192
\* sizeof(squashfs_fragment_entry_3), sizeof(squashfs_inode)
SizeofFragmentEntry3 == 16
SizeofSquashfsInode == 8

\* SQUASHFS_FRAGMENT_BYTES_3, _INDEXES_3, _INDEX_BYTES_3
FragmentBytes3(A) == A * SizeofFragmentEntry3
FragmentIndexes3(A) ==
    (FragmentBytes3(A) + SQUASHFS_METADATA_SIZE - 1) \div SQUASHFS_METADATA_SIZE
FragmentIndexBytes3(A) == FragmentIndexes3(A) * SizeofLongLong

\* SQUASHFS_LOOKUP_BYTES_3, _BLOCKS_3, _BLOCK_BYTES_3
LookupBytes3(A) == A * SizeofSquashfsInode
LookupBlocks3(A) ==
    (LookupBytes3(A) + SQUASHFS_METADATA_SIZE - 1) \div SQUASHFS_METADATA_SIZE
LookupBlockBytes3(A) == LookupBlocks3(A) * SizeofLongLong

\* malloc(bytes)
Malloc(bytes) == {NullPtr, Block(bytes)}

\* a call of salloc_index_table or alloc_index_table on statics s: the statics
\* it can leave, and whether it ends in MEM_ERROR()
AllocOutcomes(s, indexes) ==
    { [st |-> SallocStatics(s, indexes, t), abort |-> SallocAborts(s, indexes, t)] :
        t \in Realloc(SallocLength(indexes)) }

\* the staging table is reserved only in swap mode
StagingOutcomes(swp, sal, indexes) ==
    IF swp = 1 THEN AllocOutcomes(sal, indexes)
    ELSE {[st |-> sal, abort |-> FALSE]}

\* lines 136-137: int expected = (i + 1) != indexes ? SQUASHFS_METADATA_SIZE :
\*                                 bytes & (SQUASHFS_METADATA_SIZE - 1)
FragExpected(i, indexes, bytes) ==
    IF (i + 1) # indexes THEN SQUASHFS_METADATA_SIZE
    ELSE bytes % SQUASHFS_METADATA_SIZE

\* lines 139-140: the destination offset of block i in fragment_table
FragDest(i) == i * SQUASHFS_METADATA_SIZE

\* the read_block calls of the loop at lines 135-148, up to the k-th
FragReqs(k, fragments) ==
    [j \in 1..k |->
        [block |-> j - 1,
         expected |-> FragExpected(j - 1, FragmentIndexes3(fragments),
                                   FragmentBytes3(fragments)),
         dest |-> FragDest(j - 1)]]

\* why: "ok", "length" (the index does not fill the gap), "io" (a read
\* failed) or "mem" (an allocation failed)
TableOutcome(res, why, ts, al, sal, ft, reqs) ==
    [res |-> res, why |-> why, table_start |-> ts, alloc |-> al,
     salloc |-> sal, fragment_table |-> ft, reqs |-> reqs]

\* lines 98-101: the index must fill the gap up to the cursor
FragLengthOk(sb, ts) ==
    FragmentIndexBytes3(sb.fragments) = ts - sb.fragment_table_start

\* read_fragment_table(&table_start): every way the call can end.  res is
\* "TRUE", "FALSE" or "ABORT" (EXIT_UNSQUASH / MEM_ERROR); index0 is the set
\* of values element 0 of the index read from the image may have.
ReadFragmentTable(sb, swp, ts, al, sal, ft, index0) ==
    IF ~FragLengthOk(sb, ts)
    THEN {TableOutcome("FALSE", "length", ts, al, sal, ft, <<>>)}
    ELSE UNION { IF a.abort
                 THEN {TableOutcome("ABORT", "mem", ts, al, sal, ft, <<>>)}
                 ELSE UNION {
        IF m.null
        THEN {TableOutcome("ABORT", "mem", ts, a.st, sal, m, <<>>)}
        ELSE UNION {
            IF sa.abort
            THEN {TableOutcome("ABORT", "mem", ts, a.st, sal, m, <<>>)}
            ELSE \* read_fs_bytes of the index fails
                 {TableOutcome("FALSE", "io", ts, a.st, sa.st, m, <<>>)}
                 \cup \* the k-th read_block fails
                 {TableOutcome("FALSE", "io", ts, a.st, sa.st, m, FragReqs(k, sb.fragments)) :
                     k \in 1..FragmentIndexes3(sb.fragments)}
                 \cup \* line 160: *table_start = fragment_table_index[0]
                 {TableOutcome("TRUE", "ok", c, a.st, sa.st, m,
                     FragReqs(FragmentIndexes3(sb.fragments), sb.fragments)) :
                     c \in index0}
            : sa \in StagingOutcomes(swp, sal, FragmentIndexes3(sb.fragments)) }
        : m \in Malloc(FragmentBytes3(sb.fragments)) }
               : a \in AllocOutcomes(al, FragmentIndexes3(sb.fragments)) }

\* lines 550-553
ExportLengthOk(sb, ts) ==
    LookupBlockBytes3(sb.inodes) = ts - sb.lookup_table_start

\* parse_exports_table(&table_start): every way the call can end
ParseExportsTable(sb, swp, ts, al, sal, ft, index0) ==
    IF ~ExportLengthOk(sb, ts)
    THEN {TableOutcome("FALSE", "length", ts, al, sal, ft, <<>>)}
    ELSE UNION { IF a.abort
                 THEN {TableOutcome("ABORT", "mem", ts, al, sal, ft, <<>>)}
                 ELSE UNION {
        IF sa.abort
        THEN {TableOutcome("ABORT", "mem", ts, a.st, sal, ft, <<>>)}
        ELSE {TableOutcome("FALSE", "io", ts, a.st, sa.st, ft, <<>>)}
             \cup \* line 584: *table_start = export_index_table[0]
             {TableOutcome("TRUE", "ok", c, a.st, sa.st, ft, <<>>) : c \in index0}
        : sa \in StagingOutcomes(swp, sal, LookupBlocks3(sb.inodes)) }
               : a \in AllocOutcomes(al, LookupBlocks3(sb.inodes)) }

\* an id table of n entries as read_ids loads it
EmptyTable == [k \in {} |-> 0]
IdTable(n, base) == [k \in 0..(n - 1) |-> base + k]

----------------------------------------------------------------------------
(* Filesystem table orchestrator: read_filesystem_tables *)

\* the ids the model's id tables hold
UidBase == 1000
GidBase == 2000

TablesIdle ==
    /\ uid_table = EmptyTable
    /\ guid_table = EmptyTable
    /\ fragment_table = NullPtr
    /\ alloc = [alloc_table |-> NullPtr, alloc_size |-> 0]
    /\ table_start = 0
    /\ tab_cursors = <<>>
    /\ tab_from = "none"
    /\ tab_reads = <<>>
    /\ block_reqs = <<>>
    /\ tab_ret = C_FALSE
    /\ tab_pc = "idle"

Offs == {8 * k : k \in 0..MaxOff}

\* the superblocks of SpecTables: every placement of the region starts, with
\* and without gids, uids, an export table and fragments
TabSuperblocks ==
    [inodes : {TabInodes},
     fragments : {0, TabInodes, TabInodes + 1},
     bytes_used : {8 * MaxOff},
     guid_start : Offs,
     uid_start : Offs,
     lookup_table_start : Offs \cup {SQUASHFS_INVALID_BLK},
     fragment_table_start : Offs,
     directory_table_start : Offs,
     inode_table_start : Offs,
     no_uids : {0, 1},
     no_guids : {0, 1}]

TablesStart ==
    /\ sBlk \in TabSuperblocks
    /\ swap \in {0, 1}
    /\ uid_table = EmptyTable
    /\ guid_table = EmptyTable
    /\ fragment_table = NullPtr
    /\ alloc = [alloc_table |-> NullPtr, alloc_size |-> 0]
    /\ table_start = 0
    /\ tab_cursors = <<>>
    /\ tab_from = "none"
    /\ tab_reads = <<>>
    /\ block_reqs = <<>>
    /\ tab_ret = C_FALSE
    /\ tab_pc = "guids"

\* table_start = ts, and on to the next step
TabAdvance(pcn, ts, al, sal) ==
    /\ table_start' = ts
    /\ tab_cursors' = Append(tab_cursors, [step |-> tab_pc, cursor |-> ts])
    /\ alloc' = al
    /\ salloc' = sal
    /\ tab_pc' = pcn
    /\ UNCHANGED <<tab_ret, tab_from>>

\* on to the next step with the cursor as it is
TabSkip(pcn) ==
    /\ tab_pc' = pcn
    /\ tab_cursors' = Append(tab_cursors, [step |-> tab_pc, cursor |-> table_start])
    /\ UNCHANGED <<table_start, alloc, salloc, tab_ret, tab_from>>

\* lines 686-689 and 691-695: both index tables are released and ret returned
TabReturn(ret, al, sal) ==
    /\ \E a \in AllocOutcomes(al, 0), sa \in AllocOutcomes(sal, 0) :
          /\ alloc' = a.st
          /\ salloc' = sa.st
    /\ tab_ret' = ret
    /\ tab_pc' = "done"
    /\ tab_from' = tab_pc
    /\ UNCHANGED <<table_start, tab_cursors>>

\* goto corrupted
TabCorrupted(al, sal) == TabReturn(C_FALSE, al, sal)

\* EXIT_UNSQUASH or MEM_ERROR inside a table reader: the process ends
TabAbort(al, sal) ==
    /\ alloc' = al
    /\ salloc' = sal
    /\ tab_pc' = "aborted"
    /\ tab_from' = tab_pc
    /\ UNCHANGED <<table_start, tab_cursors, tab_ret>>

TabRead(reader, res, why) ==
    tab_reads' = Append(tab_reads, [reader |-> reader, res |-> res, why |-> why])

\* what follows a table reader's outcome o
TabAfter(o, pcn) ==
    CASE o.res = "TRUE" -> TabAdvance(pcn, o.table_start, o.alloc, o.salloc)
      [] o.res = "FALSE" -> TabCorrupted(o.alloc, o.salloc)
      [] o.res = "ABORT" -> TabAbort(o.alloc, o.salloc)

\* read_ids(count, start, end, &table): the table is loaded, or FALSE
ReadIds == {"TRUE", "FALSE"}
ReadIdsWhy(res) == IF res = "TRUE" THEN "ok" ELSE "read_ids"

\* lines 597-615
TabGuids ==
    /\ tab_pc = "guids"
    /\ \/ /\ sBlk.no_guids # 0
          /\ sBlk.guid_start >= sBlk.bytes_used
          /\ TabCorrupted(alloc, salloc)
          /\ UNCHANGED <<guid_table, tab_reads>>
       \/ /\ sBlk.no_guids # 0
          /\ sBlk.guid_start < sBlk.bytes_used
          /\ \E res \in ReadIds :
                /\ TabRead("read_ids(guid)", res, ReadIdsWhy(res))
                /\ IF res = "TRUE"
                   THEN /\ guid_table' = IdTable(sBlk.no_guids, GidBase)
                        /\ TabAdvance("uids", sBlk.guid_start, alloc, salloc)
                   ELSE /\ UNCHANGED guid_table
                        /\ TabCorrupted(alloc, salloc)
       \/ /\ sBlk.no_guids = 0
          /\ sBlk.guid_start # 0
          /\ TabCorrupted(alloc, salloc)
          /\ UNCHANGED <<guid_table, tab_reads>>
       \/ /\ sBlk.no_guids = 0
          /\ sBlk.guid_start = 0
          /\ TabAdvance("uids", sBlk.bytes_used, alloc, salloc)
          /\ UNCHANGED <<guid_table, tab_reads>>
    /\ UNCHANGED <<uid_table, fragment_table, block_reqs, sBlk, swap, notTables>>

\* lines 617-631
TabUids ==
    /\ tab_pc = "uids"
    /\ \/ /\ sBlk.uid_start >= table_start
          /\ TabCorrupted(alloc, salloc)
          /\ UNCHANGED <<uid_table, tab_reads>>
       \/ /\ sBlk.uid_start < table_start
          /\ sBlk.no_uids = 0
          /\ TabCorrupted(alloc, salloc)
          /\ UNCHANGED <<uid_table, tab_reads>>
       \/ /\ sBlk.uid_start < table_start
          /\ sBlk.no_uids # 0
          /\ \E res \in ReadIds :
                /\ TabRead("read_ids(uid)", res, ReadIdsWhy(res))
                /\ IF res = "TRUE"
                   THEN /\ uid_table' = IdTable(sBlk.no_uids, UidBase)
                        /\ TabAdvance("exports", sBlk.uid_start, alloc, salloc)
                   ELSE /\ UNCHANGED uid_table
                        /\ TabCorrupted(alloc, salloc)
    /\ UNCHANGED <<guid_table, fragment_table, block_reqs, sBlk, swap, notTables>>

\* lines 633-644
TabExports ==
    /\ tab_pc = "exports"
    /\ \/ /\ sBlk.lookup_table_start = SQUASHFS_INVALID_BLK
          /\ TabSkip("fragments")
          /\ UNCHANGED tab_reads
       \/ /\ sBlk.lookup_table_start # SQUASHFS_INVALID_BLK
          /\ sBlk.lookup_table_start >= table_start
          /\ TabCorrupted(alloc, salloc)
          /\ UNCHANGED tab_reads
       \/ /\ sBlk.lookup_table_start # SQUASHFS_INVALID_BLK
          /\ sBlk.lookup_table_start < table_start
          /\ \E o \in ParseExportsTable(sBlk, swap, table_start, alloc, salloc,
                                        fragment_table, Offs) :
                /\ TabRead("parse_exports_table", o.res, o.why)
                /\ TabAfter(o, "fragments")
    /\ UNCHANGED <<uid_table, guid_table, fragment_table, block_reqs, sBlk, swap, notTables>>

\* lines 646-672
TabFragments ==
    /\ tab_pc = "fragments"
    /\ \/ /\ sBlk.fragments # 0
          /\ sBlk.fragment_table_start >= table_start
          /\ TabCorrupted(alloc, salloc)
          /\ UNCHANGED <<fragment_table, block_reqs, tab_reads>>
       \/ /\ sBlk.fragments # 0
          /\ sBlk.fragment_table_start < table_start
          /\ sBlk.fragments > sBlk.inodes
          /\ TabCorrupted(alloc, salloc)
          /\ UNCHANGED <<fragment_table, block_reqs, tab_reads>>
       \/ /\ sBlk.fragments # 0
          /\ sBlk.fragment_table_start < table_start
          /\ sBlk.fragments <= sBlk.inodes
            /\ \E o \in ReadFragmentTable(sBlk, swap, table_start, alloc, salloc,
                                        fragment_table, Offs) :
                /\ TabRead("read_fragment_table", o.res, o.why)
                /\ fragment_table' = o.fragment_table
                /\ block_reqs' = o.reqs
                /\ TabAfter(o, "dirs")
       \/ /\ sBlk.fragments = 0
          /\ sBlk.fragment_table_start # table_start
          /\ TabCorrupted(alloc, salloc)
          /\ UNCHANGED <<fragment_table, block_reqs, tab_reads>>
       \/ /\ sBlk.fragments = 0
          /\ sBlk.fragment_table_start = table_start
          /\ TabSkip("dirs")
          /\ UNCHANGED <<fragment_table, block_reqs, tab_reads>>
    /\ UNCHANGED <<uid_table, guid_table, sBlk, swap,
                   notTables>>

\* the mutant: a directory table that ends at the cursor is refused
DirStartTooLargeStrict(sb, ts) == sb.directory_table_start >= ts

\* line 675: if(sBlk.s.directory_table_start > table_start)
DirStartTooLarge(sb, ts) == sb.directory_table_start > ts

\* lines 674-689
TabDirs ==
    /\ tab_pc = "dirs"
    /\ \/ /\ DirStartTooLarge(sBlk, table_start)
          /\ TabCorrupted(alloc, salloc)
       \/ /\ ~DirStartTooLarge(sBlk, table_start)
          /\ sBlk.inode_table_start >= sBlk.directory_table_start
          /\ TabCorrupted(alloc, salloc)
       \/ /\ ~DirStartTooLarge(sBlk, table_start)
          /\ sBlk.inode_table_start < sBlk.directory_table_start
          /\ TabReturn(C_TRUE, alloc, salloc)
    /\ UNCHANGED <<uid_table, guid_table, fragment_table, block_reqs, tab_reads, sBlk, swap, notTables>>

\* SpecFrag: read_fragment_table alone, for every fragment count, called with
\* the cursor at the end of the index or past it
FragStart ==
    /\ sBlk \in [inodes : {MaxFragments}, fragments : 1..MaxFragments,
                 fragment_table_start : {0}]
    /\ swap \in {0, 1}
    /\ uid_table = EmptyTable
    /\ guid_table = EmptyTable
    /\ fragment_table = NullPtr
    /\ alloc = [alloc_table |-> NullPtr, alloc_size |-> 0]
    /\ table_start \in {FragmentIndexBytes3(sBlk.fragments),
                        FragmentIndexBytes3(sBlk.fragments) + SizeofLongLong}
    /\ tab_cursors = <<>>
    /\ tab_from = "none"
    /\ tab_reads = <<>>
    /\ block_reqs = <<>>
    /\ tab_ret = C_FALSE
    /\ tab_pc = "frag"

FragCall ==
    /\ tab_pc = "frag"
    /\ \E o \in ReadFragmentTable(sBlk, swap, table_start, alloc, salloc,
                                  fragment_table, {0}) :
          /\ TabRead("read_fragment_table", o.res, o.why)
          /\ fragment_table' = o.fragment_table
          /\ block_reqs' = o.reqs
          /\ table_start' = o.table_start
          /\ alloc' = o.alloc
          /\ salloc' = o.salloc
          /\ tab_ret' = IF o.res = "TRUE" THEN C_TRUE ELSE C_FALSE
          /\ tab_pc' = IF o.res = "ABORT" THEN "aborted" ELSE "done"
    /\ tab_from' = tab_pc
    /\ UNCHANGED <<uid_table, guid_table, tab_cursors,
                   sBlk, swap, notTables>>

----------------------------------------------------------------------------
(* Inode decoder: read_inode *)

\* the inode type tags, the gid value that stands for "the uid", and the
\* "no fragment" and "no xattr" values (0xffffffff, written -1 here)
SQUASHFS_DIR_TYPE == 1
SQUASHFS_FILE_TYPE == 2
SQUASHFS_SYMLINK_TYPE == 3
SQUASHFS_BLKDEV_TYPE == 4
SQUASHFS_CHRDEV_TYPE == 5
SQUASHFS_FIFO_TYPE == 6
SQUASHFS_SOCKET_TYPE == 7
SQUASHFS_LDIR_TYPE == 8
SQUASHFS_LREG_TYPE == 9
SQUASHFS_GUIDS == 255
SQUASHFS_INVALID_FRAG == -1
SQUASHFS_INVALID_XATTR == -1

\* the inode_type field is four bits wide, the mode field twelve
InodeTypeTags == 0..15

\* lookup_type[]: the file type bits of the mode (S_IFDIR, S_IFREG, S_IFLNK,
\* S_IFBLK, S_IFCHR, S_IFIFO, S_IFSOCK, S_IFDIR, S_IFREG) of the types 1..9
lookup_type == <<16384, 32768, 40960, 24576, 8192, 4096, 49152, 16384, 32768>>

\* lookup_type[t] | mode: the two have no bit in common
ModeOf(t, mode) == lookup_type[t] + mode

\* x >> n on a non-negative x
ShiftRight(x, n) == x \div (2 ^ n)

\* static struct inode i: zero until the first call writes it
ZeroInode ==
    [blocks |-> 0, block_start |-> 0, block_offset |-> 0, block_past |-> "",
     data |-> 0, fragment |-> 0, frag_bytes |-> 0, gid |-> 0,
     inode_number |-> 0, mode |-> 0, offset |-> 0, start |-> 0,
     symlink |-> NullPtr, time |-> 0, type |-> 0, uid |-> 0, sparse |-> 0,
     xattr |-> 0]

\* the address of the static record i among the inode records in memory
StaticInode == 0

MemAt(mem, a) == IF a \in DOMAIN mem THEN mem[a] ELSE ZeroInode
MemWrite(mem, a, v) == [k \in DOMAIN mem \cup {a} |-> IF k = a THEN v ELSE mem[k]]

\* the mutant: a record of its own for every call
ReadInodeResultFresh(calls) == calls + 1

\* static struct inode i; ... return &i; whatever the number of calls before
ReadInodeResult(calls) == StaticInode

\* table[k]; the guards of lines 200 and 207 keep k inside the table
TableAt(table, k) == IF k \in DOMAIN table THEN table[k] ELSE 0

\* the mutant: an index equal to the count passes
UidTooLargeOffByOne(uid, no_uids) == uid > no_uids

\* if(header.base.uid >= sBlk.no_uids)
UidTooLarge(uid, no_uids) == uid >= no_uids

\* the mutant: a gid index equal to the count passes
GuidTooLargeOffByOne(guid, no_guids) == guid > no_guids

\* else if(header.base.guid >= sBlk.no_guids)
GuidTooLarge(guid, no_guids) == guid >= no_guids

\* how a call ends: exit names the EXIT_UNSQUASH or MEM_ERROR reached ("none"
\* for return &i), i is the record as the call leaves it, ids the id table
\* accesses made and reads the read_inode_data calls issued after the base
\* header's
InodeOutcome(exit, i, ids) ==
    [exit |-> exit, i |-> i, ids |-> ids, reads |-> <<>>]
InodeIssued(reads, o) == [o EXCEPT !.reads = reads]

\* the fields of the record that differ between i0 and i
InodeChanged(i0, i) == {f \in DOMAIN i : i[f] # i0[f]}

\* i.frag_bytes
FileFragBytes(sb, file_size, fragment) ==
    IF fragment = SQUASHFS_INVALID_FRAG THEN 0 ELSE file_size % sb.block_size

\* i.blocks
FileBlocks(sb, file_size, fragment) ==
    IF fragment = SQUASHFS_INVALID_FRAG
    THEN ShiftRight(file_size + sb.block_size - 1, sb.block_log)
    ELSE ShiftRight(file_size, sb.block_log)

\* lines 226-388: the switch on the inode type. The type's header is read
\* again from (start, offset); fail names the read or allocation that fails.
\* block_start and block_offset are the stream position that read left, i.e.
\* the one past the header (block_past) read at (start, offset).
InodeSwitch(sb, i, h, start, offset, fail, ids) ==
    LET t == h.inode_type
        file == [i EXCEPT !.data = h.file_size,
                          !.frag_bytes = FileFragBytes(sb, h.file_size, h.fragment),
                          !.fragment = h.fragment,
                          !.offset = h.offset,
                          !.blocks = FileBlocks(sb, h.file_size, h.fragment),
                          !.start = h.start_block,
                          !.block_start = start,
                          !.block_offset = offset,
                          !.block_past = IF t = SQUASHFS_FILE_TYPE
                                         THEN "reg" ELSE "lreg",
                          !.sparse = 1]
    IN
    CASE t \in {SQUASHFS_DIR_TYPE, SQUASHFS_LDIR_TYPE} ->
           InodeIssued(<<"header">>,
               IF fail = "header" THEN InodeOutcome("read", i, ids)
               ELSE InodeOutcome("none",
                        [i EXCEPT !.data = h.file_size, !.offset = h.offset,
                                  !.start = h.start_block], ids))
      [] t \in {SQUASHFS_FILE_TYPE, SQUASHFS_LREG_TYPE} ->
           InodeIssued(<<"header">>,
               IF fail = "header" THEN InodeOutcome("read", i, ids)
               ELSE InodeOutcome("none", file, ids))
      [] t = SQUASHFS_SYMLINK_TYPE ->
           IF fail = "header"
           THEN InodeIssued(<<"header">>, InodeOutcome("read", i, ids))
           ELSE IF fail = "mem"
                THEN InodeIssued(<<"header">>, InodeOutcome("mem", i, ids))
           ELSE InodeIssued(<<"header", "symlink">>,
                    IF fail = "symlink"
                    THEN InodeOutcome("read",
                             [i EXCEPT !.symlink = Block(h.symlink_size + 1)], ids)
                    ELSE InodeOutcome("none",
                             [i EXCEPT !.symlink = Block(h.symlink_size + 1),
                                       !.data = h.symlink_size], ids))
      [] t \in {SQUASHFS_BLKDEV_TYPE, SQUASHFS_CHRDEV_TYPE} ->
           InodeIssued(<<"header">>,
               IF fail = "header" THEN InodeOutcome("read", i, ids)
               ELSE InodeOutcome("none", [i EXCEPT !.data = h.rdev], ids))
      [] t \in {SQUASHFS_FIFO_TYPE, SQUASHFS_SOCKET_TYPE} ->
           InodeOutcome("none", [i EXCEPT !.data = 0], ids)
      [] OTHER -> InodeOutcome("unknown", i, ids)

\* lines 198-224 and the switch: the base header h has been read
InodeDecode(sb, uidt, gidt, i0, h, start, offset, fail) ==
    LET ix == [i0 EXCEPT !.xattr = SQUASHFS_INVALID_XATTR]
        iu == [ix EXCEPT !.uid = TableAt(uidt, h.uid)]
        uid_read == <<[table |-> "uid", index |-> h.uid]>>
        gid_read == Append(uid_read, [table |-> "guid", index |-> h.guid])
        ig == [iu EXCEPT !.gid = IF h.guid = SQUASHFS_GUIDS THEN iu.uid
                                 ELSE TableAt(gidt, h.guid)]
        ids == IF h.guid = SQUASHFS_GUIDS THEN uid_read ELSE gid_read
        ib == [ig EXCEPT !.mode = ModeOf(h.inode_type, h.mode),
                         !.type = h.inode_type,
                         !.time = h.mtime,
                         !.inode_number = h.inode_number]
    IN
    IF UidTooLarge(h.uid, sb.no_uids) THEN InodeOutcome("uid", ix, <<>>)
    ELSE IF h.guid # SQUASHFS_GUIDS /\ GuidTooLarge(h.guid, sb.no_guids)
         THEN InodeOutcome("gid", iu, uid_read)
    ELSE IF h.inode_type < 1 \/ h.inode_type > 9
         THEN InodeOutcome("type", ig, ids)
    ELSE IF h.inode_number > sb.inodes
         THEN InodeOutcome("inode_number", ig, ids)
    ELSE IF h.inode_number = 0 THEN InodeOutcome("inode_number_zero", ig, ids)
    ELSE InodeSwitch(sb, ib, h, start, offset, fail, ids)

\* read_inode(start_block, offset) on the header h the stream holds there
\* (its fields as the swap macros or the plain read leave them in header)
ReadInode(sb, uidt, gidt, i0, start_block, offset, h, fail) ==
    LET start == sb.inode_table_start + start_block IN
    IF fail = "base" THEN InodeOutcome("read_base", i0, <<>>)
    ELSE InodeDecode(sb, uidt, gidt, i0, h, start, offset, fail)

ReadFailures == {"none", "base", "header", "mem", "symlink"}

\* the headers of the model: one plain fifo, varied one group of fields at a
\* time
PlainHeader ==
    [inode_type |-> SQUASHFS_FIFO_TYPE, mode |-> 420, uid |-> 0,
     guid |-> SQUASHFS_GUIDS, mtime |-> 1, inode_number |-> 1,
     file_size |-> 0, offset |-> 0, start_block |-> 0,
     fragment |-> SQUASHFS_INVALID_FRAG, symlink_size |-> 0, rdev |-> 0]

IdHeaders ==
    {[PlainHeader EXCEPT !.uid = u, !.guid = g] :
        u \in 0..MaxId, g \in (0..MaxId) \cup {SQUASHFS_GUIDS}}
\* symlinks, which have a header and a name to read, with every id index
SymlinkIdHeaders ==
    {[PlainHeader EXCEPT !.inode_type = SQUASHFS_SYMLINK_TYPE,
                         !.symlink_size = 2, !.uid = u, !.guid = g] :
        u \in 0..MaxId, g \in (0..MaxId) \cup {SQUASHFS_GUIDS}}
TypeHeaders ==
    {[PlainHeader EXCEPT !.inode_type = t, !.inode_number = n] :
        t \in InodeTypeTags, n \in 0..MaxInodeNumber}
FileHeaders ==
    {[PlainHeader EXCEPT !.inode_type = t, !.file_size = s, !.fragment = f,
                         !.mtime = 2] :
        t \in {SQUASHFS_FILE_TYPE, SQUASHFS_LREG_TYPE},
        s \in 0..MaxFileSize, f \in {SQUASHFS_INVALID_FRAG, 0}}
PayloadHeaders ==
    {[PlainHeader EXCEPT !.inode_type = t, !.symlink_size = 2, !.rdev = 3,
                         !.file_size = 3, !.mtime = 3] :
        t \in 1..9}
InodeHeaders ==
    IdHeaders \cup SymlinkIdHeaders \cup TypeHeaders \cup FileHeaders
    \cup PayloadHeaders

\* the image: any of the headers lies at the first locator read, one header
\* of each type at those read after it
InodeHeadersAt(calls) == IF calls = 0 THEN InodeHeaders ELSE PayloadHeaders

\* the superblocks of SpecInode: every uid and gid count up to MaxId with one
\* block size, and every block_size / block_log pair with one uid
InodeSuperblocks ==
    [block_size : {1}, block_log : {0}, inodes : {MaxInodeNumber - 1},
     no_uids : 1..MaxId, no_guids : 0..MaxId,
     inode_table_start : {0}, directory_table_start : {0}]
    \cup
    [block_size : {2 ^ k : k \in 0..MaxBlockLog}, block_log : 0..MaxBlockLog,
     inodes : {MaxInodeNumber - 1}, no_uids : {1}, no_guids : {0},
     inode_table_start : {0}, directory_table_start : {0}]

InodeIdle ==
    /\ inode_mem = [a \in {StaticInode} |-> ZeroInode]
    /\ inode_held = <<>>
    /\ inode_ids = <<>>
    /\ inode_reads = <<>>
    /\ inode_changed = {}
    /\ inode_hdr = <<>>
    /\ inode_calls = 0
    /\ inode_exit = "none"
    /\ inode_pc = "idle"

\* the tables read_filesystem_tables left for the superblock sBlk
TablesLoaded ==
    /\ uid_table = IdTable(sBlk.no_uids, UidBase)
    /\ guid_table = IdTable(sBlk.no_guids, GidBase)
    /\ fragment_table = NullPtr
    /\ alloc = [alloc_table |-> NullPtr, alloc_size |-> 0]
    /\ table_start = 0
    /\ tab_cursors = <<>>
    /\ tab_from = "none"
    /\ tab_reads = <<>>
    /\ block_reqs = <<>>
    /\ tab_ret = C_TRUE
    /\ tab_pc = "idle"

\* read_inode hands both byte orders on as the same decoded header, so one
\* byte order stands for both
InodeStart ==
    /\ sBlk \in InodeSuperblocks
    /\ swap = 0
    /\ TablesLoaded
    /\ inode_mem = [a \in {StaticInode} |-> ZeroInode]
    /\ inode_held = <<>>
    /\ inode_ids = <<>>
    /\ inode_reads = <<>>
    /\ inode_changed = {}
    /\ inode_hdr = <<>>
    /\ inode_calls = 0
    /\ inode_exit = "none"
    /\ inode_pc = "run"

\* the caller keeps the first pointer it was handed and the latest one
Held(held, ptr, seen) ==
    IF Len(held) = 0 THEN <<[ptr |-> ptr, seen |-> seen]>>
    ELSE <<held[1], [ptr |-> ptr, seen |-> seen]>>

\* the effect of one read_inode call with outcome o on the record at address a
InodeCalled(o, a, h) ==
    /\ inode_ids' = o.ids
    /\ inode_reads' = o.reads
    /\ inode_changed' = InodeChanged(MemAt(inode_mem, a), o.i)
    /\ inode_hdr' = IF o.exit = "read_base" THEN <<>> ELSE h
    /\ inode_calls' = inode_calls + 1
    /\ inode_exit' = o.exit
    /\ IF o.exit = "none"
       THEN /\ inode_mem' = MemWrite(inode_mem, a, o.i)
            /\ inode_held' = Held(inode_held, a, o.i)
            /\ inode_pc' = "run"
       ELSE \* the process ends, and its memory and its callers with it
            /\ inode_mem' = [x \in {StaticInode} |-> ZeroInode]
            /\ inode_held' = <<>>
            /\ inode_pc' = "exit"

\* the offsets of the locators: every offset at the first locator read, the
\* start of the block at those read after it
InodeOffsets(calls) == IF calls = 0 THEN 0..MaxInodeOffset ELSE {0}

\* a call read_inode(start_block, offset) that returns &i
ReadInodeReturns ==
    /\ inode_pc = "run"
    /\ inode_calls < MaxInodeCalls
    /\ \E offset \in InodeOffsets(inode_calls), h \in InodeHeadersAt(inode_calls) :
         LET a == ReadInodeResult(inode_calls)
             o == ReadInode(sBlk, uid_table, guid_table, MemAt(inode_mem, a),
                            0, offset, h, "none")
         IN /\ o.exit = "none"
            /\ InodeCalled(o, a, h)
    /\ UNCHANGED notInode

\* a call read_inode(start_block, offset) that ends in EXIT_UNSQUASH or
\* MEM_ERROR: the process ends
ReadInodeExits ==
    /\ inode_pc = "run"
    /\ inode_calls < MaxInodeCalls
    /\ \E offset \in InodeOffsets(inode_calls), h \in InodeHeadersAt(inode_calls),
          fail \in ReadFailures :
         LET a == ReadInodeResult(inode_calls)
             o == ReadInode(sBlk, uid_table, guid_table, MemAt(inode_mem, a),
                            0, offset, h, fail)
         IN /\ o.exit # "none"
            /\ InodeCalled(o, a, h)
    /\ UNCHANGED notInode

----------------------------------------------------------------------------
(* Directory stream decoder: squashfs_opendir *)

SQUASHFS_NAME_LEN == 256
SQUASHFS_DIR_COUNT == 256

\* sizeof(squashfs_dir_header_3): count in 8 bits, start_block in 24
SizeofDirHeader3 == 4
\* sizeof(squashfs_dir_entry_3): offset in 13 bits, type in 3, size in 8
SizeofDirEntry3 == 3

\* no struct dir: before malloc and after squashfs_closedir
NoDir ==
    [null |-> TRUE, dir_count |-> 0, mode |-> 0, uid |-> 0, guid |-> 0,
     mtime |-> 0, xattr |-> 0, dirs |-> <<>>]

\* lines 415-422
NewDir(i) ==
    [null |-> FALSE, dir_count |-> 0, mode |-> i.mode, uid |-> i.uid,
     guid |-> i.gid, mtime |-> i.time, xattr |-> i.xattr, dirs |-> <<>>]

\* the mutant: the empty directory taken for one of size 0
DirIsEmptyAtZero(data) == data = 0

\* if ((*i)->data == 3)
DirIsEmpty(data) == data = 3

\* size = (*i)->data + bytes - 3
DirSize(data, bytes) == data + bytes - 3

\* the mutant: the loop gives up three bytes before the budget is consumed
DirMoreShort(bytes, size) == bytes < size - 3

\* while(bytes < size)
DirMore(bytes, size) == bytes < size

\* the mutant: the length of the name, not the size field, is compared
DirNameTooLongByLength(size) == size + 1 >= SQUASHFS_NAME_LEN

\* if(dire->size >= SQUASHFS_NAME_LEN)
DirNameTooLong(size) == size >= SQUASHFS_NAME_LEN

\* check_name(name, size): the name has size bytes, is not "." or ".." and
\* holds no '/'
CheckName(name, size) ==
    /\ Len(name) = size
    /\ size > 0
    /\ name # <<46>>
    /\ name # <<46, 46>>
    /\ \A k \in 1..Len(name) : name[k] # 47

\* strcmp(a, b) < 0
StrLess(a, b) ==
    LET differ == {k \in 1..Len(a) : k <= Len(b) /\ a[k] # b[k]} IN
    IF differ = {} THEN Len(a) < Len(b)
    ELSE LET first == CHOOSE k \in differ : \A j \in differ : k <= j
         IN a[first] < b[first]

\* check_directory(dir): the names are strictly sorted, hence free of
\* duplicates
CheckDirectory(dirs) ==
    \A k \in 1..(Len(dirs) - 1) : StrLess(dirs[k].name, dirs[k + 1].name)

\* the names the directory stream holds: ".", "..", "a", "b", "a/b" and a
\* name of SQUASHFS_NAME_LEN bytes, the longest the 8-bit size field can state
LongName == [k \in 1..SQUASHFS_NAME_LEN |-> 97]
DirNames == {<<46>>, <<46, 46>>, <<97>>, <<98>>, <<97, 47, 98>>, LongName}

\* the owning inodes of SpecDir: directories of every size up to MaxDirData, a
\* fifo, and a uid index past the table
DirInodeHeaders ==
    {[PlainHeader EXCEPT !.inode_type = t, !.file_size = s, !.uid = u] :
        t \in {SQUASHFS_DIR_TYPE, SQUASHFS_LDIR_TYPE, SQUASHFS_FIFO_TYPE},
        s \in 0..MaxDirData, u \in {0, 1}}

NoEntry == [name |-> <<>>, size |-> 0, what |-> "none"]

DirIdle ==
    /\ dir = NoDir
    /\ dir_i = StaticInode
    /\ dir_bytes = 0
    /\ dir_size = 0
    /\ dir_count = 0
    /\ dir_dirh = [count |-> 0, start_block |-> 0]
    /\ dir_last = NoEntry
    /\ dir_reads = 0
    /\ dir_built = 0
    /\ dir_checks = <<>>
    /\ dir_freed = 0
    /\ dir_ret = "none"
    /\ dir_pc = "idle"

DirStart ==
    /\ sBlk \in [block_size : {1}, block_log : {0}, inodes : {1},
                 no_uids : {1}, no_guids : {0},
                 inode_table_start : {0}, directory_table_start : {0}]
    /\ swap \in {0, 1}
    /\ TablesLoaded
    /\ inode_mem = [a \in {StaticInode} |-> ZeroInode]
    /\ inode_held = <<>>
    /\ inode_ids = <<>>
    /\ inode_reads = <<>>
    /\ inode_changed = {}
    /\ inode_hdr = <<>>
    /\ inode_calls = 0
    /\ inode_exit = "none"
    /\ inode_pc = "run"
    /\ dir = NoDir
    /\ dir_i = StaticInode
    /\ dir_bytes = 0
    /\ dir_size = 0
    /\ dir_count = 0
    /\ dir_dirh = [count |-> 0, start_block |-> 0]
    /\ dir_last = NoEntry
    /\ dir_reads = 0
    /\ dir_built = 0
    /\ dir_checks = <<>>
    /\ dir_freed = 0
    /\ dir_ret = "none"
    /\ dir_pc = "open"

\* corrupted: squashfs_closedir(dir) releases the entries and the directory;
\* NULL is returned
DirCorrupted(d) ==
    /\ dir_freed' = Len(d.dirs)
    /\ dir' = NoDir
    /\ dir_ret' = "NULL"
    /\ dir_pc' = "done"

\* MEM_ERROR(): the process ends
DirMemError ==
    /\ dir_pc' = "exit"
    /\ UNCHANGED <<dir, dir_ret, dir_freed>>

\* lines 409-435: the owning inode is read, the directory allocated and
\* filled in from it, and the empty directory returned at once
DirOpen ==
    /\ dir_pc = "open"
    /\ \E h \in DirInodeHeaders, fail \in {"none", "base"}, dir_malloc \in BOOLEAN :
         LET a == ReadInodeResult(inode_calls)
             o == ReadInode(sBlk, uid_table, guid_table, MemAt(inode_mem, a),
                            0, 0, h, fail)
         IN /\ InodeCalled(o, a, h)
            /\ IF o.exit # "none"
               THEN /\ dir_pc' = "exit"
                    /\ UNCHANGED <<dir, dir_i, dir_size, dir_ret>>
               ELSE /\ dir_i' = a
                    /\ IF ~dir_malloc
                       THEN /\ dir_pc' = "exit"
                            /\ UNCHANGED <<dir, dir_size, dir_ret>>
                       ELSE /\ dir' = NewDir(o.i)
                            /\ IF DirIsEmpty(o.i.data)
                               THEN /\ dir_ret' = "dir"
                                    /\ dir_pc' = "done"
                                    /\ UNCHANGED dir_size
                               ELSE /\ dir_size' = DirSize(o.i.data, dir_bytes)
                                    /\ dir_pc' = "loop"
                                    /\ UNCHANGED dir_ret
    /\ UNCHANGED <<dir_bytes, dir_count, dir_dirh, dir_last, dir_reads,
                   dir_built, dir_checks, dir_freed, notDir>>

\* lines 437-458: one header is read
DirHeader ==
    /\ dir_pc = "loop"
    /\ DirMore(dir_bytes, dir_size)
    /\ dir_reads' = dir_reads + 1
    /\ \E res \in BOOLEAN, count \in 0..(MaxDirCount - 1) :
         IF ~res
         THEN /\ DirCorrupted(dir)
              /\ UNCHANGED <<dir_bytes, dir_count, dir_dirh>>
         ELSE /\ dir_dirh' = [count |-> count, start_block |-> 0]
              /\ dir_bytes' = dir_bytes + SizeofDirHeader3
              /\ dir_count' = count + 1
              /\ IF count + 1 > SQUASHFS_DIR_COUNT
                 THEN DirCorrupted(dir)
                 ELSE /\ dir_pc' = "entries"
                      /\ UNCHANGED <<dir, dir_ret, dir_freed>>
    /\ UNCHANGED <<dir_i, dir_size, dir_last, dir_built, dir_checks,
                   inodeVars, notDir>>

\* what one pass of the loop of lines 460-516 does with the entry record
\* of size field Len(name) - 1 and the name that follows it; fail names the
\* read or allocation that fails. strdup's result is stored unchecked: the
\* model follows the runs in which it returns the copy.
DirEntryOutcome(name, fail) ==
    LET size == Len(name) - 1 IN
    IF fail = "entry" THEN [what |-> "read", reads |-> 1, bytes |-> 0]
    ELSE IF DirNameTooLong(size)
         THEN [what |-> "toolong", reads |-> 1, bytes |-> SizeofDirEntry3]
    ELSE IF fail = "name"
         THEN [what |-> "read_name", reads |-> 2, bytes |-> SizeofDirEntry3]
    ELSE IF ~CheckName(name, size + 1)
         THEN [what |-> "name", reads |-> 2, bytes |-> SizeofDirEntry3]
    ELSE IF fail = "mem"
         THEN [what |-> "mem", reads |-> 2, bytes |-> SizeofDirEntry3]
    ELSE [what |-> "appended", reads |-> 2,
          bytes |-> SizeofDirEntry3 + size + 1]

\* lines 460-516: one entry is read, checked and appended
DirEntry ==
    /\ dir_pc = "entries"
    /\ \E name \in DirNames, fail \in {"none", "entry", "name", "mem"} :
         LET o == DirEntryOutcome(name, fail)
             ent == [name |-> name, start_block |-> dir_dirh.start_block,
                     offset |-> 0, type |-> SQUASHFS_FILE_TYPE]
         IN /\ dir_last' = [name |-> name, size |-> Len(name) - 1,
                            what |-> o.what]
            /\ dir_reads' = dir_reads + o.reads
            /\ dir_bytes' = dir_bytes + o.bytes
            /\ dir_count' = dir_count - 1
            /\ CASE o.what = "appended" ->
                      /\ dir' = [dir EXCEPT !.dirs = Append(dir.dirs, ent),
                                            !.dir_count = dir.dir_count + 1]
                      /\ dir_built' = dir_built + 1
                      /\ dir_pc' = IF dir_count - 1 = 0 THEN "loop"
                                   ELSE "entries"
                      /\ UNCHANGED <<dir_ret, dir_freed>>
                 [] o.what = "mem" ->
                      /\ DirMemError
                      /\ UNCHANGED dir_built
                 [] OTHER ->
                      /\ DirCorrupted(dir)
                      /\ UNCHANGED dir_built
    /\ UNCHANGED <<dir_i, dir_size, dir_dirh, dir_checks, inodeVars, notDir>>

\* lines 519-529: the budget is consumed; the directory is checked for
\* duplicate names and sorting, and returned or released
DirCheck ==
    /\ dir_pc = "loop"
    /\ ~DirMore(dir_bytes, dir_size)
    /\ dir_checks' = Append(dir_checks,
                            [bytes |-> dir_bytes, size |-> dir_size,
                             reads |-> dir_reads, dirs |-> dir.dirs])
    /\ IF CheckDirectory(dir.dirs)
       THEN /\ dir_ret' = "dir"
            /\ dir_pc' = "done"
            /\ UNCHANGED <<dir, dir_freed>>
       ELSE DirCorrupted(dir)
    /\ UNCHANGED <<dir_i, dir_bytes, dir_size, dir_count, dir_dirh, dir_last,
                   dir_reads, dir_built, inodeVars, notDir>>

----------------------------------------------------------------------------
(* The specifications *)

InitAlloc ==
    /\ SallocInit /\ sBlk = <<>> /\ swap = 0
    /\ SuperIdle /\ TablesIdle /\ InodeIdle /\ DirIdle
NextAlloc == AllocReserve \/ AllocFail
SpecAlloc == InitAlloc /\ [][NextAlloc]_vars

InitSuper == SallocInit /\ SuperStart /\ TablesIdle /\ InodeIdle /\ DirIdle
NextSuper == ReadSuper3ReadFails \/ ReadSuper3Rejects \/ ReadSuper3Accepts
SpecSuper == InitSuper /\ [][NextSuper]_vars

InitTables == SallocInit /\ SuperIdle /\ TablesStart /\ InodeIdle /\ DirIdle
NextTables == TabGuids \/ TabUids \/ TabExports \/ TabFragments \/ TabDirs
SpecTables == InitTables /\ [][NextTables]_vars

InitFrag == SallocInit /\ SuperIdle /\ FragStart /\ InodeIdle /\ DirIdle
NextFrag == FragCall
SpecFrag == InitFrag /\ [][NextFrag]_vars

InitInode == SallocInit /\ SuperIdle /\ InodeStart /\ DirIdle
NextInode == ReadInodeReturns \/ ReadInodeExits
SpecInode == InitInode /\ [][NextInode]_vars

InitDir == SallocInit /\ SuperIdle /\ DirStart
NextDir == DirOpen \/ DirHeader \/ DirEntry \/ DirCheck
SpecDir == InitDir /\ [][NextDir]_vars

----------------------------------------------------------------------------
(* C1 *)

TabTerminated == tab_pc \in {"done", "aborted"}
TabPassed(step) == \E k \in 1..Len(tab_cursors) : tab_cursors[k].step = step
TabCursorAfter(step) ==
    tab_cursors[CHOOSE k \in 1..Len(tab_cursors) : tab_cursors[k].step = step].cursor

\* The cursor of each orchestrator step.  After the id tables it is a field of
\* the superblock; after the export and the fragment table it is element 0 of
\* the index read from the image: the value the run read, or, when the run
\* never read that index, any value the image may hold there.
C1_Cursor1 == IF sBlk.no_guids > 0 THEN sBlk.guid_start ELSE sBlk.bytes_used
C1_Cursor2 == sBlk.uid_start
C1_Cursors3 ==
    IF sBlk.lookup_table_start = SQUASHFS_INVALID_BLK THEN {C1_Cursor2}
    ELSE IF TabPassed("exports") THEN {TabCursorAfter("exports")}
    ELSE Offs
C1_Cursors4(c3) ==
    IF sBlk.fragments = 0 THEN {c3}
    ELSE IF TabPassed("fragments") THEN {TabCursorAfter("fragments")}
    ELSE Offs

\* the region-ordering inequalities of section 4.3
C1_Inequalities(c3, c4) ==
    /\ IF sBlk.no_guids > 0 THEN sBlk.guid_start < sBlk.bytes_used
                            ELSE sBlk.guid_start = 0
    /\ sBlk.uid_start < C1_Cursor1
    /\ sBlk.no_uids > 0
    /\ sBlk.lookup_table_start # SQUASHFS_INVALID_BLK =>
          sBlk.lookup_table_start < C1_Cursor2
    /\ IF sBlk.fragments > 0
       THEN sBlk.fragment_table_start < c3 /\ sBlk.fragments <= sBlk.inodes
       ELSE sBlk.fragment_table_start = c3
    /\ sBlk.directory_table_start <= c4
    /\ sBlk.inode_table_start < sBlk.directory_table_start

\* every inequality holds for the superblock (and some index content the run
\* is a run of)
C1_InequalitiesHold ==
    \E c3 \in C1_Cursors3 : \E c4 \in C1_Cursors4(c3) : C1_Inequalities(c3, c4)

C1_ReadersSucceeded == \A k \in 1..Len(tab_reads) : tab_reads[k].res = "TRUE"
C1_ReaderAborted ==
    Len(tab_reads) > 0 /\ tab_reads[Len(tab_reads)].res = "ABORT"
\* no read failed, no allocation failed and read_ids loaded its table
C1_NoReadOrAllocationFailed ==
    \A k \in 1..Len(tab_reads) : tab_reads[k].why \in {"ok", "length"}

\* C1 as claimed: read_filesystem_tables returns success if and only if every
\* region-ordering inequality holds, and for a superblock that violates one
\* the call ends with the failure return value, never with a process abort;
\* stated for the runs in which no read and no allocation fails.
C1_Original ==
    TabTerminated /\ C1_NoReadOrAllocationFailed =>
        /\ tab_pc = "done" => (tab_ret = C_TRUE <=> C1_InequalitiesHold)
        /\ ~C1_InequalitiesHold => tab_pc = "done" /\ tab_ret = C_FALSE

\* C1 as amended: read_filesystem_tables returns success if and only if every
\* region-ordering inequality holds and every table reader it called
\* (read_ids, parse_exports_table, read_fragment_table) returned success; for
\* a superblock that violates an inequality the call never returns success: it
\* returns the failure value, unless a table reader called before the violated
\* check ends the process on an allocation failure.
C1_LoadTables ==
    /\ tab_pc = "done" =>
          /\ tab_ret \in {C_TRUE, C_FALSE}
          /\ tab_ret = C_TRUE <=> (C1_InequalitiesHold /\ C1_ReadersSucceeded)
    /\ tab_pc = "aborted" => C1_ReaderAborted
    /\ TabTerminated /\ ~C1_InequalitiesHold =>
          \/ tab_pc = "done" /\ tab_ret = C_FALSE
          \/ tab_pc = "aborted" /\ C1_ReaderAborted

\* a load that succeeds with gids, an export table and fragments present, the
\* directory table ending at the cursor
C1_Witness ==
    /\ tab_pc = "done"
    /\ tab_ret = C_TRUE
    /\ sBlk.no_guids > 0
    /\ sBlk.lookup_table_start # SQUASHFS_INVALID_BLK
    /\ sBlk.fragments > 0
    /\ sBlk.directory_table_start = table_start
    /\ Len(tab_reads) = 4

----------------------------------------------------------------------------
(* C10 *)

RECURSIVE C10_SumExpected(_)
C10_SumExpected(reqs) ==
    IF Len(reqs) = 0 THEN 0
    ELSE reqs[Len(reqs)].expected + C10_SumExpected(SubSeq(reqs, 1, Len(reqs) - 1))

C10_Bytes == 16 * sBlk.fragments
C10_Indexes == (C10_Bytes + 8191) \div 8192

\* C10: for every fragment count n > 0 (bytes = 16 * n, indexes =
\* ceil(bytes / 8192)) block i is asked for with expected length 8192 when it
\* is not the last block and bytes - 8192 * (indexes - 1), a value in 1..8192,
\* when it is; block i goes to offset 8192 * i, and the expected lengths of a
\* complete read sum to bytes.
C10_ExpectedLengths ==
    /\ \A j \in 1..Len(block_reqs) :
          /\ block_reqs[j].block = j - 1
          /\ block_reqs[j].dest = 8192 * (j - 1)
          /\ block_reqs[j].expected \in 1..8192
          /\ block_reqs[j].expected =
                IF j = C10_Indexes THEN C10_Bytes - 8192 * (C10_Indexes - 1)
                ELSE 8192
    /\ Len(block_reqs) <= C10_Indexes
    /\ (Len(block_reqs) = C10_Indexes /\ Len(block_reqs) > 0) =>
          C10_SumExpected(block_reqs) = C10_Bytes

----------------------------------------------------------------------------
(* C8 *)

LastIndexes == salloc_hist[Len(salloc_hist)]
SallocReturned == salloc_pc = "run" /\ Len(salloc_hist) > 0

\* the statics agree: alloc_size is the capacity of the block alloc_table
\* points to
C8_CapacityTracked ==
    /\ salloc.alloc_size >= 0
    /\ ~salloc.alloc_table.null => salloc.alloc_table.cap = salloc.alloc_size
    /\ salloc.alloc_table.null => salloc.alloc_size = 0

\* C8: after reserve(n) with n > 0 the returned buffer holds at least n
\* 64-bit slots; reserve(0) releases the buffer and leaves capacity 0;
\* the buffer goes through realloc only when the requested size exceeds the
\* capacity (or is 0), so the capacity decreases only in a reserve(0) call.
C8_Reserve ==
    /\ [](SallocReturned /\ LastIndexes > 0 =>
            /\ ~salloc_ret.null
            /\ salloc_ret.cap >= LastIndexes * SizeofLongLong
            /\ salloc_ret = salloc.alloc_table)
    /\ [](SallocReturned /\ LastIndexes = 0 =>
            /\ salloc.alloc_size = 0
            /\ salloc_ret.cap = 0)
    /\ []C8_CapacityTracked
    /\ [][salloc_hist' # salloc_hist /\ salloc_pc' = "run" =>
            /\ (salloc_did' =>
                  \/ salloc_hist'[Len(salloc_hist')] * SizeofLongLong > salloc.alloc_size
                  \/ salloc_hist'[Len(salloc_hist')] = 0)
            /\ (~salloc_did' => salloc' = salloc)
            /\ (salloc'.alloc_size < salloc.alloc_size =>
                  salloc_hist'[Len(salloc_hist')] = 0)]_vars

\* a reserve(n), n > 0, served from the capacity a larger earlier request left
C8_Witness ==
    /\ SallocReturned
    /\ Len(salloc_hist) >= 2
    /\ LastIndexes > 0
    /\ salloc_hist[Len(salloc_hist) - 1] > LastIndexes
    /\ ~salloc_did
    /\ salloc.alloc_size > LastIndexes * SizeofLongLong

----------------------------------------------------------------------------
(* C7 *)

\* the version test of read_super_3 stated on the record as it lies in the
\* image: a native magic with the fields as read, or a foreign magic with the
\* fields byte-reversed
C7_NotThisFormat(raw) ==
    \/ raw.s_magic \notin {SQUASHFS_MAGIC, SQUASHFS_MAGIC_SWAP}
    \/ /\ raw.s_magic = SQUASHFS_MAGIC
       /\ (raw.s_major # <<0, 3>> \/ raw.s_minor \notin {<<0, 0>>, <<0, 1>>})
    \/ /\ raw.s_magic = SQUASHFS_MAGIC_SWAP
       /\ (raw.s_major # <<3, 0>> \/ raw.s_minor \notin {<<0, 0>>, <<1, 0>>})

\* the value a field has for the host: as read, or reversed for a foreign image
C7_HostValue(raw, f) ==
    IF raw.s_magic = SQUASHFS_MAGIC_SWAP THEN Reverse(raw[f]) ELSE raw[f]

\* C7: read_super_3 returns FALSE when the raw read fails, otherwise -1
\* exactly when the (swapped, for a foreign magic) record has a wrong magic,
\* a major other than 3 or a minor above 1, otherwise TRUE; only when it
\* returns TRUE are the superblock fields, the operations table and the gzip
\* compressor written, and xattr_id_table_start is then SQUASHFS_INVALID_BLK.
C7_SuperOutcomes ==
    super_pc = "done" =>
        /\ super_ret \in {C_FALSE, NotThisFormat, C_TRUE}
        /\ ~super_read <=> super_ret = C_FALSE
        /\ super_read => (super_ret = NotThisFormat <=> C7_NotThisFormat(super_raw))
        /\ super_ret = C_TRUE =>
              /\ \A f \in SuperFields : sBlk[f] = C7_HostValue(super_raw, f)
              /\ sBlk.xattr_id_table_start = InvalidBlkBytes
              /\ super_ops = "ops"
              /\ comp = "gzip"
        /\ super_ret # C_TRUE =>
              /\ sBlk = ZeroSBlk
              /\ super_ops = "none"
              /\ comp = "none"

\* a foreign-endian 3.1 superblock is accepted, its fields swapped to host order
C7_Witness ==
    /\ super_pc = "done"
    /\ super_raw.s_magic = SQUASHFS_MAGIC_SWAP
    /\ super_raw.s_minor = <<1, 0>>
    /\ super_raw.inodes = <<2, 0, 0, 0>>
    /\ super_ret = C_TRUE
    /\ swap = 1
    /\ sBlk.inodes = <<0, 0, 0, 2>>
    /\ sBlk.s_minor = <<0, 1>>

----------------------------------------------------------------------------
(* C9 *)

\* what the k-th pointer the caller holds shows now
C9_Shows(k) == MemAt(inode_mem, inode_held[k].ptr)

\* C9 as claimed: an inode returned by read_inode is owned by its caller:
\* every field of a previously returned inode keeps the value it was decoded
\* with, whatever read_inode calls follow.
C9_Original ==
    \A k \in 1..Len(inode_held) : C9_Shows(k) = inode_held[k].seen

\* C9 as amended: every read_inode call returns the address of the one static
\* record, so an inode returned earlier shows, field by field, what the latest
\* call that returned left in that record.
C9_StaticRecord ==
    /\ DOMAIN inode_mem = {StaticInode}
    /\ \A k \in 1..Len(inode_held) :
          /\ inode_held[k].ptr = StaticInode
          /\ C9_Shows(k) = inode_held[Len(inode_held)].seen

\* two calls returned, the second with other values than the first
C9_Witness ==
    /\ Len(inode_held) = 2
    /\ inode_pc = "run"
    /\ inode_held[1].seen.type = SQUASHFS_FILE_TYPE
    /\ inode_held[2].seen.type = SQUASHFS_SYMLINK_TYPE
    /\ C9_Shows(1).type = SQUASHFS_SYMLINK_TYPE

----------------------------------------------------------------------------
(* C6 *)

\* the last call read a base header
C6_Decoded == inode_calls > 0 /\ inode_exit # "read_base"
C6_Returned == inode_held[Len(inode_held)].seen
C6_Accessed(table) ==
    {inode_ids[k].index : k \in {j \in 1..Len(inode_ids) : inode_ids[j].table = table}}

\* C6: read_inode indexes the uid table only below the uid count and the gid
\* table only below the gid count; a uid index at or past the uid count is
\* fatal; a gid field of SQUASHFS_GUIDS gives gid = the resolved uid without
\* an access to the gid table; any other gid index at or past the gid count is
\* fatal.
C6_IdIndexes ==
    /\ \A k \in C6_Accessed("uid") : k < sBlk.no_uids /\ k \in DOMAIN uid_table
    /\ \A k \in C6_Accessed("guid") : k < sBlk.no_guids /\ k \in DOMAIN guid_table
    /\ C6_Decoded /\ inode_hdr.uid >= sBlk.no_uids =>
          /\ inode_exit = "uid"
          /\ inode_ids = <<>>
    /\ C6_Decoded /\ inode_hdr.uid < sBlk.no_uids =>
          /\ inode_exit # "uid"
          /\ C6_Accessed("uid") = {inode_hdr.uid}
          /\ inode_hdr.guid = SQUASHFS_GUIDS =>
                /\ C6_Accessed("guid") = {}
                /\ inode_exit # "gid"
                /\ inode_exit = "none" =>
                      /\ C6_Returned.uid = uid_table[inode_hdr.uid]
                      /\ C6_Returned.gid = C6_Returned.uid
          /\ inode_hdr.guid # SQUASHFS_GUIDS /\ inode_hdr.guid >= sBlk.no_guids =>
                /\ inode_exit = "gid"
                /\ C6_Accessed("guid") = {}
          /\ inode_hdr.guid # SQUASHFS_GUIDS /\ inode_hdr.guid < sBlk.no_guids =>
                /\ inode_exit # "gid"
                /\ C6_Accessed("guid") = {inode_hdr.guid}
                /\ inode_exit = "none" =>
                      /\ C6_Returned.uid = uid_table[inode_hdr.uid]
                      /\ C6_Returned.gid = guid_table[inode_hdr.guid]

\* a uid index equal to the length of the uid table ends the process
C6_Witness ==
    /\ C6_Decoded
    /\ sBlk.no_uids = MaxId
    /\ inode_hdr.uid = sBlk.no_uids
    /\ inode_exit = "uid"
    /\ inode_pc = "exit"

----------------------------------------------------------------------------
(* C4 *)

C4_FileReturned ==
    /\ inode_calls > 0
    /\ inode_exit = "none"
    /\ inode_hdr.inode_type \in {SQUASHFS_FILE_TYPE, SQUASHFS_LREG_TYPE}
C4_Inode == inode_held[Len(inode_held)].seen
C4_Ceil(a, b) == (a + b - 1) \div b
C4_Floor(a, b) == a \div b

\* C4: for every regular and extended regular file inode, every file size and
\* every block_size / block_log pair of the superblock: without a fragment
\* tail bytes = 0 and block count = ceil(size / block size); with a fragment
\* block count = floor(size / block size) and tail bytes = size mod block
\* size.
C4_BlockCounts ==
    C4_FileReturned =>
        IF inode_hdr.fragment = SQUASHFS_INVALID_FRAG
        THEN /\ C4_Inode.frag_bytes = 0
             /\ C4_Inode.blocks = C4_Ceil(inode_hdr.file_size, sBlk.block_size)
        ELSE /\ C4_Inode.blocks = C4_Floor(inode_hdr.file_size, sBlk.block_size)
             /\ C4_Inode.frag_bytes = inode_hdr.file_size % sBlk.block_size

\* C4 for the superblocks whose block_size is 2 ^ block_log
C4_BlockCountsWhenLogMatches ==
    sBlk.block_size = 2 ^ sBlk.block_log => C4_BlockCounts

----------------------------------------------------------------------------
(* C5 *)

\* read_inode has returned and the directory has been allocated
C5_Opened == dir_pc \in {"loop", "entries", "done"}
C5_Inode == MemAt(inode_mem, dir_i)

\* C5: when the owning inode's declared size is exactly 3, squashfs_opendir
\* returns a directory of no entries that carries the inode's mode, uid, gid,
\* mtime and xattr, without a read from the directory stream and without a
\* name or sort check.
C5_EmptyDirectory ==
    C5_Opened /\ C5_Inode.data = 3 =>
        /\ dir_pc = "done"
        /\ dir_ret = "dir"
        /\ ~dir.null
        /\ dir.dir_count = 0
        /\ dir.dirs = <<>>
        /\ dir.mode = C5_Inode.mode
        /\ dir.uid = C5_Inode.uid
        /\ dir.guid = C5_Inode.gid
        /\ dir.mtime = C5_Inode.time
        /\ dir.xattr = C5_Inode.xattr
        /\ dir_reads = 0
        /\ dir_checks = <<>>
        /\ dir_last = NoEntry
        /\ dir_built = 0

\* the empty directory of a directory inode of size 3 has been returned
C5_Witness ==
    /\ dir_pc = "done"
    /\ dir_ret = "dir"
    /\ inode_hdr.inode_type = SQUASHFS_DIR_TYPE
    /\ inode_hdr.file_size = 3
    /\ C5_Inode.data = 3
    /\ dir.mode = ModeOf(SQUASHFS_DIR_TYPE, PlainHeader.mode)
    /\ dir.dirs = <<>>

----------------------------------------------------------------------------
(* C2 *)

\* C2: check_directory runs only after the byte budget is consumed and no
\* entry is read after it; it runs at most once, and exactly once in every
\* call that returns a directory it built from the stream; when the entries
\* materialized are not strictly sorted the call returns NULL and every entry
\* built has been released; a directory is returned only whole: checked, or
\* the empty one.
C2_CheckAfterBudget ==
    /\ Len(dir_checks) <= 1
    /\ \A k \in 1..Len(dir_checks) :
          /\ dir_checks[k].bytes >= dir_checks[k].size
          /\ dir_checks[k].reads = dir_reads
          /\ Len(dir_checks[k].dirs) = dir_built
          /\ dir_pc = "done"
          /\ IF \A j \in 1..(dir_built - 1) :
                   StrLess(dir_checks[k].dirs[j].name, dir_checks[k].dirs[j + 1].name)
             THEN /\ dir_ret = "dir"
                  /\ dir.dirs = dir_checks[k].dirs
                  /\ dir_freed = 0
             ELSE /\ dir_ret = "NULL"
                  /\ dir = NoDir
                  /\ dir_freed = dir_built
    /\ dir_ret = "dir" =>
          /\ dir_pc = "done"
          /\ Len(dir_checks) = 1 \/ (C5_Inode.data = 3 /\ dir_built = 0)
          /\ dir.dir_count = dir_built
          /\ Len(dir.dirs) = dir_built
    /\ dir_ret = "NULL" =>
          /\ dir_pc = "done"
          /\ dir = NoDir
          /\ dir_freed = dir_built
    /\ dir_pc \in {"loop", "entries"} => dir_ret = "none" /\ dir_checks = <<>>

\* a directory of two entries out of order, read to the end of its budget,
\* checked and released
C2_Witness ==
    /\ dir_pc = "done"
    /\ dir_ret = "NULL"
    /\ Len(dir_checks) = 1
    /\ dir_built = 2
    /\ dir_freed = 2
    /\ dir_last.what = "appended"
    /\ dir_checks[1].dirs[1].name = <<98>>
    /\ dir_checks[1].dirs[2].name = <<97>>

----------------------------------------------------------------------------
(* C3 *)

C3_InvalidName(name) ==
    \/ name = <<46>>
    \/ name = <<46, 46>>
    \/ \E k \in 1..Len(name) : name[k] = 47

\* the entry record of the entry last read was read, so its size is known,
\* and the process was not ended for want of memory
C3_EntryRead == dir_last.what \in {"toolong", "read_name", "name", "appended"}

\* C3 as claimed: an entry whose name is ".", "..", holds a "/" or has a
\* length (size field plus one) of SQUASHFS_NAME_LEN or more makes the call
\* return no directory, and no such entry is in a directory that is returned.
C3_Original ==
    /\ (/\ C3_EntryRead
        /\ \/ C3_InvalidName(dir_last.name)
           \/ dir_last.size + 1 >= SQUASHFS_NAME_LEN) =>
          dir_pc = "done" /\ dir_ret = "NULL" /\ dir.null
    /\ ~dir.null =>
          \A k \in 1..Len(dir.dirs) :
             /\ ~C3_InvalidName(dir.dirs[k].name)
             /\ Len(dir.dirs[k].name) < SQUASHFS_NAME_LEN

\* C3 as amended: an entry whose name is ".", "..", holds a "/", or whose
\* size field is SQUASHFS_NAME_LEN or more (a name of more than
\* SQUASHFS_NAME_LEN bytes) makes the call release what it built and return
\* NULL, and no such entry is in a directory that is returned; an entry is
\* turned down for its name in no other case, so a name of exactly
\* SQUASHFS_NAME_LEN bytes is accepted.
C3_InvalidNames ==
    /\ (/\ C3_EntryRead
        /\ \/ C3_InvalidName(dir_last.name)
           \/ dir_last.size >= SQUASHFS_NAME_LEN) =>
          /\ dir_pc = "done"
          /\ dir_ret = "NULL"
          /\ dir = NoDir
          /\ dir_freed = dir_built
    /\ ~dir.null =>
          \A k \in 1..Len(dir.dirs) :
             /\ ~C3_InvalidName(dir.dirs[k].name)
             /\ Len(dir.dirs[k].name) <= SQUASHFS_NAME_LEN
    /\ dir_last.what = "name" => C3_InvalidName(dir_last.name)
    /\ dir_last.what = "toolong" => dir_last.size >= SQUASHFS_NAME_LEN

\* ".." read after an entry was built: the entry is released, NULL returned
C3_Witness ==
    /\ dir_pc = "done"
    /\ dir_ret = "NULL"
    /\ dir_last.what = "name"
    /\ dir_last.name = <<46, 46>>
    /\ dir_built = 1
    /\ dir_freed = 1

----------------------------------------------------------------------------
(* C11 *)

C11_Loaded == tab_pc = "done" /\ tab_ret = C_TRUE
\* the cursor after the k-th orchestrator step; bytes_used before the first
C11_CursorAt(k) == IF k = 0 THEN sBlk.bytes_used ELSE tab_cursors[k].cursor
C11_CursorNeverIncreases ==
    \A k \in 1..Len(tab_cursors) : C11_CursorAt(k) <= C11_CursorAt(k - 1)
C11_HasExports == sBlk.lookup_table_start # SQUASHFS_INVALID_BLK
C11_IdsOrdered ==
    /\ C11_HasExports => sBlk.lookup_table_start < sBlk.uid_start
    /\ sBlk.uid_start <
          (IF sBlk.no_guids # 0 THEN sBlk.guid_start ELSE sBlk.bytes_used)
C11_RegionsOrdered ==
    /\ sBlk.inode_table_start < sBlk.directory_table_start
    /\ sBlk.directory_table_start <= sBlk.fragment_table_start
    /\ C11_HasExports /\ sBlk.fragments # 0 =>
          sBlk.fragment_table_start < sBlk.lookup_table_start
    /\ C11_IdsOrdered

\* C11: whenever read_filesystem_tables succeeds the regions are ordered
\* back-to-front: the cursor never increases from one step to the next
\* (bytes_used, guid_start, uid_start, the export index's element 0, the
\* fragment index's element 0), and inode_table_start <
\* directory_table_start <= fragment_table_start, fragment_table_start <
\* lookup_table_start when an export table and fragments are both present,
\* lookup_table_start < uid_start, and uid_start < guid_start (bytes_used
\* without gids), for every content of the index arrays.
C11_BackToFront ==
    C11_Loaded => C11_CursorNeverIncreases /\ C11_RegionsOrdered

\* what the checks of lines 597-684 do order on a successful load: the
\* superblock's id, export and inode / directory starts among themselves,
\* and the fragment and directory starts against the cursor of their step,
\* whatever the index arrays made of it
C11_OrderedAgainstCursor ==
    C11_Loaded =>
        /\ Len(tab_cursors) = 4
        /\ C11_IdsOrdered
        /\ sBlk.inode_table_start < sBlk.directory_table_start
        /\ C11_CursorAt(2) = sBlk.uid_start
        /\ C11_CursorAt(1) <= C11_CursorAt(0)
        /\ C11_CursorAt(2) < C11_CursorAt(1)
        /\ IF sBlk.fragments # 0
           THEN sBlk.fragment_table_start < C11_CursorAt(3)
           ELSE sBlk.fragment_table_start = C11_CursorAt(3)
        /\ sBlk.directory_table_start <= C11_CursorAt(4)

\* a successful load in which element 0 of the export index lies above
\* uid_start: the cursor has increased
C11_CursorIncreased ==
    /\ C11_Loaded
    /\ C11_HasExports
    /\ C11_CursorAt(3) > C11_CursorAt(2)

----------------------------------------------------------------------------
(* C12 *)

\* squashfs_opendir is past line 435 on a directory that is not the empty
\* one: its size leaves a budget above 0
C12_NonEmpty == C5_Opened /\ ~DirIsEmpty(C5_Inode.data) /\ C5_Inode.data > 3
\* the declared budget: the directory size of the inode minus 3
C12_Budget == C5_Inode.data - 3
C12_Returned == dir_pc = "done" /\ dir_ret = "dir"

\* C12: in squashfs_opendir on a non-empty directory the bytes consumed from
\* the directory stream never exceed the budget (the inode's directory size
\* minus 3): no entry record and no name is read once the byte count has
\* reached the budget, for every header entry count and name size, and on
\* every successful return the byte count equals the budget.
C12_WithinBudget ==
    C12_NonEmpty =>
        /\ dir_size = C12_Budget
        /\ dir_bytes <= C12_Budget
        /\ dir_pc = "entries" => dir_bytes < C12_Budget
        /\ C12_Returned => dir_bytes = C12_Budget

\* what the loop condition of line 437 does give: a header is read only
\* below the budget, and a directory is returned only with the budget reached
C12_HeaderWithinBudget ==
    C12_NonEmpty =>
        /\ dir_size = C12_Budget
        /\ (dir_pc = "entries" /\ dir_count = dir_dirh.count + 1) =>
              dir_bytes - SizeofDirHeader3 < C12_Budget
        /\ C12_Returned =>
              /\ dir_bytes >= C12_Budget
              /\ Len(dir_checks) = 1
              /\ dir_checks[1].bytes = dir_bytes

\* a directory returned with more bytes consumed than the budget: the header
\* used it up and its entry was read all the same
C12_Overrun ==
    /\ C12_NonEmpty
    /\ C12_Returned
    /\ C12_Budget = SizeofDirHeader3
    /\ dir_bytes = SizeofDirHeader3 + SizeofDirEntry3 + 1
    /\ Len(dir.dirs) = 1

----------------------------------------------------------------------------
(* C13 *)

\* the last call read a base header, and what that header holds
C13_Decoded == inode_calls > 0 /\ inode_exit # "read_base"
C13_Malformed ==
    \/ inode_hdr.uid >= sBlk.no_uids
    \/ inode_hdr.guid # SQUASHFS_GUIDS /\ inode_hdr.guid >= sBlk.no_guids
    \/ inode_hdr.inode_type \notin 1..9
    \/ inode_hdr.inode_number = 0
    \/ inode_hdr.inode_number > sBlk.inodes
C13_CommonExits == {"uid", "gid", "type", "inode_number", "inode_number_zero"}
\* the fields written before the checks are through: i.xattr, i.uid, i.gid
C13_EarlyFields == {"xattr", "uid", "gid"}
\* the types whose case of the switch reads a header of its own
C13_TypesWithHeader == (1..9) \ {SQUASHFS_FIFO_TYPE, SQUASHFS_SOCKET_TYPE}

\* C13: in every read_inode call the checks of the common fields (uid index
\* in range, gid the sentinel or in range, type tag in 1..9, inode number
\* nonzero and at most the superblock's inode count) are through before a
\* type's own header is read or a type's own field of the inode is written:
\* a malformed common field ends the call fatally with no such read issued,
\* and the "Unknown inode type" default branch of the switch is never
\* reached.
C13_CommonChecksFirst ==
    /\ C13_Decoded /\ C13_Malformed =>
          /\ inode_pc = "exit"
          /\ inode_exit \in C13_CommonExits
          /\ inode_reads = <<>>
          /\ inode_changed \subseteq C13_EarlyFields
    /\ (inode_reads # <<>> \/ ~(inode_changed \subseteq C13_EarlyFields)) =>
          C13_Decoded /\ ~C13_Malformed
    /\ (/\ C13_Decoded
        /\ ~C13_Malformed
        /\ inode_hdr.inode_type \in C13_TypesWithHeader) =>
          inode_reads # <<>>
    /\ inode_exit # "unknown"

\* a symlink whose gid index is the gid count: the call ends at the gid check
\* with the uid resolved, no header or name read and no other field written
C13_Witness ==
    /\ C13_Decoded
    /\ inode_hdr.inode_type = SQUASHFS_SYMLINK_TYPE
    /\ inode_hdr.uid < sBlk.no_uids
    /\ inode_hdr.guid = sBlk.no_guids
    /\ inode_exit = "gid"
    /\ inode_pc = "exit"
    /\ inode_reads = <<>>
    /\ inode_changed = {"xattr", "uid"}

====
